---------------------------- MODULE Spec2Model ----------------------------
(***************************************************************************)
(* Model of python/chemistry/chemistry.ipynb: the molecular-similarity     *)
(* notebook.  The notebook's code cells run top to bottom: load the file   *)
(* smiles.csv into 'lines', parse the lines into 'molecules', read a query *)
(* SMILES, scan the records with most_similar, print the best match and    *)
(* draw the grid image.  A cell that raises stops the run.                 *)
(*                                                                         *)
(* Text is a sequence of one-character strings.  A fingerprint is the set  *)
(* of atoms of a molecule; a similarity is kept in units of 1/Scale, with  *)
(* Scale a common multiple of every denominator that can occur, so the     *)
(* division of the Tanimoto coefficient is exact.                          *)
(***************************************************************************)
EXTENDS Integers, Sequences, FiniteSets, TLC

\* ---------------------------------------------------------------- bounds
\* Greatest number of lines after the header line in an input file.
MaxRows == 3

\* ------------------------------------------------------------ text model
NL == "\n"
TAB == "\t"

\* The atoms a SMILES string of the model can be made of.
Atoms == {"C", "N", "O"}

\* A character no SMILES parser accepts.
BadChar == "?"

\* Value of a name that is not bound (Python raises on reading it).
Unbound == 0

RECURSIVE Factorial(_)
Factorial(n) == IF n <= 1 THEN 1 ELSE n * Factorial(n - 1)

\* Similarities are multiples of 1/Scale; Scale itself is the similarity 1.0.
Scale == Factorial(Cardinality(Atoms))

\* str.split(sep): the pieces of s between the occurrences of sep; always at
\* least one piece, and an empty piece after a final sep.
RECURSIVE SplitFrom(_, _, _, _)
SplitFrom(s, sep, i, piece) ==
    IF i > Len(s) THEN <<piece>>
    ELSE IF s[i] = sep THEN <<piece>> \o SplitFrom(s, sep, i + 1, <<>>)
    ELSE SplitFrom(s, sep, i + 1, Append(piece, s[i]))

Split(s, sep) == SplitFrom(s, sep, 1, <<>>)

\* The inverse used to build input files: the pieces joined by sep.
RECURSIVE Join(_, _)
Join(pieces, sep) ==
    IF Len(pieces) = 0 THEN <<>>
    ELSE IF Len(pieces) = 1 THEN pieces[1]
    ELSE pieces[1] \o <<sep>> \o Join(Tail(pieces), sep)

\* list without its last element (del l[-1] on a non-empty list).
Front(l) == SubSeq(l, 1, Len(l) - 1)

\* ------------------------------------------------------------ inputs
\* The header line of smiles.csv ("Name\tSmiles", shortened).
HeaderText == <<"h", TAB, "s">>

\* The texts a line after the header can have: well-formed name/SMILES rows,
\* a row with a third field, a row with an empty SMILES, a row whose SMILES
\* does not parse, and a line with no tab at all.
RowTexts ==
    { <<"a", TAB, "C", "N">>,
      <<"b", TAB, "C">>,
      <<"c", TAB, "N">>,
      <<"d", TAB, "O">>,
      <<"e", TAB, "C", "N", "O", TAB, "x">>,
      <<"f", TAB, BadChar>>,
      <<"g", TAB>>,
      <<"i">> }

RowSeqs == UNION { [1..n -> RowTexts] : n \in 0..MaxRows }

\* The contents smiles.csv can have: nothing at all, or a header and up to
\* MaxRows further lines, with or without a newline after the last line.
Files ==
    { <<>> } \cup
    { Join(<<HeaderText>> \o rows, NL) \o tail :
        rows \in RowSeqs, tail \in { <<>>, <<NL>> } }

\* What the user can type at the prompt.
Queries == { <<"C", "N">>, <<"C">>, <<BadChar>>, <<>> }


\* ------------------------------------------------- the external library
\* Chem.MolFromSmiles: the molecule of a SMILES string, or None when the
\* string does not parse (the library logs the error and returns None).
None == [isNone |-> TRUE, atoms |-> {}]

MolFromSmiles(smiles) ==
    IF \E i \in 1..Len(smiles) : smiles[i] \notin Atoms
    THEN None
    ELSE [isNone |-> FALSE, atoms |-> { smiles[i] : i \in 1..Len(smiles) }]

\* Chem.RDKFingerprint accepts a molecule only: called with None it raises.
FingerprintRaises(mol) == mol.isNone

\* Chem.RDKFingerprint of a molecule: the set of its on bits.
RDKFingerprint(mol) == mol.atoms

\* DataStructs.FingerprintSimilarity (Tanimoto by default): bits in common
\* over bits in either; 1.0 when neither fingerprint has a bit set.
FingerprintSimilarity(fp1, fp2) ==
    IF fp1 \cup fp2 = {} THEN Scale
    ELSE (Cardinality(fp1 \cap fp2) * Scale) \div Cardinality(fp1 \cup fp2)

\* The score most_similar gives a SMILES string against a query fingerprint.
SimilarityOf(smiles, fp) ==
    FingerprintSimilarity(RDKFingerprint(MolFromSmiles(smiles)), fp)

\* ------------------------------------------------------------ the state
VARIABLES
    file,            \* contents of smiles.csv
    reads,           \* number of times the file has been read
    pc,              \* the cell (or loop) that runs next
    failure,         \* the exception that stopped the run, or "none"
    printed,         \* what the cells have printed, in order
    lines,           \* global 'lines'
    molecules,       \* global 'molecules'
    parse_i,         \* position of 'for l in lines'
    query_smiles,    \* global 'query_smiles'
    query_fp,        \* most_similar: local 'query_fp'
    max_similarity,  \* most_similar: local 'max_similarity'
    best_mol,        \* most_similar: local 'best_mol', an index of molecules
    scan_i,          \* position of 'for test_mol in tqdm(molecules)'
    scanned,         \* indices the scan loop has taken, in order
    sim_calls,       \* number of FingerprintSimilarity calls made
    nb_best_mol,     \* global 'best_mol', an index of molecules
    images           \* molecules drawn by Draw.MolsToGridImage

vars == <<file, reads, pc, failure, printed, lines, molecules, parse_i,
          query_smiles, query_fp, max_similarity, best_mol, scan_i, scanned,
          sim_calls, nb_best_mol, images>>

loadVars == <<file, reads, lines>>
parseVars == <<molecules, parse_i>>
searchVars == <<query_fp, max_similarity, best_mol, scan_i, scanned, sim_calls>>

Running == failure = "none"

\* ------------------------------------------------ conditions of the code
\* Variants of the update condition: without the lower bound, without the
\* upper bound, with a non-strict lower bound, with the operands swapped.
BetterAnyBelowOne(max, similarity) == 0 < similarity /\ similarity < Scale

BetterNoUpper(max, similarity) == max < similarity

BetterOrEqual(max, similarity) == max <= similarity /\ similarity < Scale

BetterSwapped(max, similarity) == similarity < max /\ max < Scale

\* The update condition of the scan: max_similarity < similarity < 1.
Better(max, similarity) == max < similarity /\ similarity < Scale

\* Variants of the loop condition: one element short, and stopping at the
\* first record kept.
HasNextButLast(i, list) == i < Len(list)

HasNextUntilFound(i, list) == i <= Len(list) /\ best_mol = Unbound

\* A for loop over a list ('for l in lines', 'for test_mol in
\* tqdm(molecules)') at position i: the loop has a next element.
HasNext(i, list) == i <= Len(list)

\* Variant of the initial maximum: below every similarity.
InitialMaxBelowZero == 0 - 1

\* max_similarity = 0 at the start of most_similar.
InitialMax == 0

Init ==
    /\ file \in Files
    /\ reads = 0
    /\ pc = "load"
    /\ failure = "none"
    /\ printed = <<>>
    /\ lines = <<>>
    /\ molecules = <<>>
    /\ parse_i = 1
    /\ query_smiles = <<>>
    /\ query_fp = {}
    /\ max_similarity = InitialMax
    /\ best_mol = Unbound
    /\ scan_i = 1
    /\ scanned = <<>>
    /\ sim_calls = 0
    /\ nb_best_mol = Unbound
    /\ images = <<>>

\* ------------------------------------------------------------ load cell
\* with open('smiles.csv') as f: lines = f.read().split('\n');
\* print(lines[0]); del lines[0]; del lines[-1]
Load ==
    /\ pc = "load" /\ Running
    /\ reads' = reads + 1
    /\ LET all == Split(file, NL)
           rest == Tail(all)
       IN /\ printed' = Append(printed, all[1])
          /\ IF Len(rest) = 0
             THEN /\ lines' = rest
                  /\ failure' = "IndexError"
                  /\ pc' = pc
             ELSE /\ lines' = Front(rest)
                  /\ failure' = failure
                  /\ pc' = "parse"
    /\ UNCHANGED <<file, parseVars, query_smiles, searchVars, nb_best_mol, images>>

\* ----------------------------------------------------------- parse cell
\* molecules = []
ParseStart ==
    /\ pc = "parse" /\ Running
    /\ molecules' = <<>>
    /\ parse_i' = 1
    /\ pc' = "parse_loop"
    /\ UNCHANGED <<loadVars, failure, printed, query_smiles, searchVars,
                   nb_best_mol, images>>

\* Variant of the parse iteration that takes the last field of the line as
\* the SMILES instead of the second.
ParseLineLastField ==
    /\ pc = "parse_loop" /\ Running
    /\ HasNext(parse_i, lines)
    /\ LET elements == Split(lines[parse_i], TAB)
       IN IF Len(elements) < 2
          THEN /\ failure' = "IndexError"
               /\ UNCHANGED <<molecules, parse_i>>
          ELSE /\ molecules' = Append(molecules,
                                 [name |-> elements[1],
                                  smiles |-> elements[Len(elements)]])
               /\ parse_i' = parse_i + 1
               /\ failure' = failure
    /\ UNCHANGED <<loadVars, pc, printed, query_smiles, searchVars,
                   nb_best_mol, images>>

\* One iteration of 'for l in lines': split the line at the tabs and append
\* the record of its first two fields; elements[1] raises on a line that has
\* no tab.
ParseLine ==
    /\ pc = "parse_loop" /\ Running
    /\ HasNext(parse_i, lines)
    /\ LET elements == Split(lines[parse_i], TAB)
       IN IF Len(elements) < 2
          THEN /\ failure' = "IndexError"
               /\ UNCHANGED <<molecules, parse_i>>
          ELSE /\ molecules' = Append(molecules,
                                 [name |-> elements[1], smiles |-> elements[2]])
               /\ parse_i' = parse_i + 1
               /\ failure' = failure
    /\ UNCHANGED <<loadVars, pc, printed, query_smiles, searchVars,
                   nb_best_mol, images>>

\* 'for l in lines' is exhausted: the cell ends.
ParseEnd ==
    /\ pc = "parse_loop" /\ Running
    /\ ~HasNext(parse_i, lines)
    /\ pc' = "input"
    /\ UNCHANGED <<loadVars, parseVars, failure, printed, query_smiles,
                   searchVars, nb_best_mol, images>>

\* ----------------------------------------------------------- input cell
\* query_smiles = input("Input a valid SMILES string:\n")
Input ==
    /\ pc = "input" /\ Running
    /\ \E q \in Queries : query_smiles' = q
    /\ pc' = "search"
    /\ UNCHANGED <<loadVars, parseVars, failure, printed, searchVars,
                   nb_best_mol, images>>

\* ---------------------------------------------------------- most_similar
\* Variant of the start of most_similar that does not convert the query
\* before the loop: the scan starts whatever the query is, with the
\* fingerprint left as it was.
SearchStartUnconverted ==
    /\ pc = "search" /\ Running
    /\ max_similarity' = InitialMax
    /\ best_mol' = Unbound
    /\ scan_i' = 1
    /\ scanned' = <<>>
    /\ sim_calls' = 0
    /\ pc' = "scan"
    /\ UNCHANGED <<loadVars, parseVars, failure, printed, query_smiles,
                   query_fp, nb_best_mol, images>>

\* best_mol = most_similar(query_smiles), up to the loop: max_similarity = 0
\* and the fingerprint of the query, which raises when the query SMILES does
\* not parse.
SearchStart ==
    /\ pc = "search" /\ Running
    /\ max_similarity' = InitialMax
    /\ best_mol' = Unbound
    /\ scan_i' = 1
    /\ scanned' = <<>>
    /\ sim_calls' = 0
    /\ LET mol == MolFromSmiles(query_smiles)
       IN IF FingerprintRaises(mol)
          THEN /\ failure' = "ArgumentError"
               /\ UNCHANGED <<pc, query_fp>>
          ELSE /\ query_fp' = RDKFingerprint(mol)
               /\ pc' = "scan"
               /\ failure' = failure
    /\ UNCHANGED <<loadVars, parseVars, printed, query_smiles, nb_best_mol,
                   images>>

\* Variant of the scan iteration that passes over a record whose SMILES does
\* not parse and goes on with the next one.
ScanIterationSkipping ==
    /\ pc = "scan" /\ Running
    /\ HasNext(scan_i, molecules)
    /\ scanned' = Append(scanned, scan_i)
    /\ LET test_mol == molecules[scan_i]
           mol == MolFromSmiles(test_mol.smiles)
       IN IF FingerprintRaises(mol)
          THEN /\ scan_i' = scan_i + 1
               /\ UNCHANGED <<failure, max_similarity, best_mol, sim_calls>>
          ELSE LET test_fp == RDKFingerprint(mol)
                   similarity == FingerprintSimilarity(test_fp, query_fp)
               IN /\ sim_calls' = sim_calls + 1
                  /\ IF Better(max_similarity, similarity)
                     THEN /\ max_similarity' = similarity
                          /\ best_mol' = scan_i
                     ELSE UNCHANGED <<max_similarity, best_mol>>
                  /\ scan_i' = scan_i + 1
                  /\ failure' = failure
    /\ UNCHANGED <<pc, printed, query_smiles, query_fp, nb_best_mol, images>>

\* One iteration of the scan loop: fingerprint the record (raises when its
\* SMILES does not parse), score it against the query, and keep it when it
\* is better than the best so far and below 1.
ScanIteration ==
    /\ pc = "scan" /\ Running
    /\ HasNext(scan_i, molecules)
    /\ scanned' = Append(scanned, scan_i)
    /\ LET test_mol == molecules[scan_i]
           mol == MolFromSmiles(test_mol.smiles)
       IN IF FingerprintRaises(mol)
          THEN /\ failure' = "ArgumentError"
               /\ UNCHANGED <<max_similarity, best_mol, scan_i, sim_calls>>
          ELSE LET test_fp == RDKFingerprint(mol)
                   similarity == FingerprintSimilarity(test_fp, query_fp)
               IN /\ sim_calls' = sim_calls + 1
                  /\ IF Better(max_similarity, similarity)
                     THEN /\ max_similarity' = similarity
                          /\ best_mol' = scan_i
                     ELSE UNCHANGED <<max_similarity, best_mol>>
                  /\ scan_i' = scan_i + 1
                  /\ failure' = failure
    /\ UNCHANGED <<pc, printed, query_smiles, query_fp, nb_best_mol, images>>

\* Variant of the scan step that takes the record out of the list as it
\* scores it.
ScanStepConsuming ==
    /\ ScanIteration
    /\ molecules' = [molecules EXCEPT ![scan_i] = [name |-> <<>>, smiles |-> <<>>]]
    /\ UNCHANGED <<loadVars, parse_i>>

\* The scan step reads 'molecules' and the file is not touched.
ScanStep ==
    /\ ScanIteration
    /\ UNCHANGED <<loadVars, parseVars>>

\* return best_mol, and the assignment of the result to the global best_mol:
\* reading the local raises when no iteration assigned it.
ScanReturn ==
    /\ pc = "scan" /\ Running
    /\ ~HasNext(scan_i, molecules)
    /\ IF best_mol = Unbound
       THEN /\ failure' = "UnboundLocalError"
            /\ UNCHANGED <<pc, nb_best_mol>>
       ELSE /\ nb_best_mol' = best_mol
            /\ pc' = "report"
            /\ failure' = failure
    /\ UNCHANGED <<loadVars, parseVars, printed, query_smiles, searchVars,
                   images>>

\* ---------------------------------------------------------- report cell
\* print("The best match was:"); print(best_mol['name']);
\* print(best_mol['smiles'])
Report ==
    /\ pc = "report" /\ Running
    /\ printed' = printed \o << <<"T">>, molecules[nb_best_mol].name,
                                molecules[nb_best_mol].smiles >>
    /\ pc' = "render"
    /\ UNCHANGED <<loadVars, parseVars, failure, query_smiles, searchVars,
                   nb_best_mol, images>>

\* ------------------------------------------------------ visualisation
\* query_m, match_m = Chem.MolFromSmiles(...); Draw.MolsToGridImage of the
\* two with the legends 'Query' and 'Best Match'.
Render ==
    /\ pc = "render" /\ Running
    /\ LET query_m == MolFromSmiles(query_smiles)
           match_m == MolFromSmiles(molecules[nb_best_mol].smiles)
       IN images' = << [legend |-> "Query", mol |-> query_m],
                       [legend |-> "Best Match", mol |-> match_m] >>
    /\ pc' = "done"
    /\ UNCHANGED <<loadVars, parseVars, failure, printed, query_smiles,
                   searchVars, nb_best_mol>>

Next ==
    \/ Load
    \/ ParseStart
    \/ ParseLine
    \/ ParseEnd
    \/ Input
    \/ SearchStart
    \/ ScanStep
    \/ ScanReturn
    \/ Report
    \/ Render

Spec == Init /\ [][Next]_vars

\* =================================================================
\* Properties
\* =================================================================
Valid(smiles) == ~MolFromSmiles(smiles).isNone

\* The fingerprint of the query the user typed.
QueryFp == RDKFingerprint(MolFromSmiles(query_smiles))

\* The similarity of record i of the database to the query.
Sim(i) == SimilarityOf(molecules[i].smiles, QueryFp)

Records == 1..Len(molecules)

\* Every library call of the search succeeds on these inputs.
AllValid == Valid(query_smiles) /\ \A i \in Records : Valid(molecules[i].smiles)

\* most_similar has returned a record.
Returned == pc \in {"report", "render", "done"}

\* most_similar has ended by raising.
Raised == pc \in {"search", "scan"} /\ ~Running

\* The greatest of the similarities strictly between 0 and 1 among the first
\* k records, 0 if there is none.
MaxMid(k) ==
    LET mids == { Sim(i) : i \in { j \in 1..k : 0 < Sim(j) /\ Sim(j) < Scale } }
    IN IF mids = {} THEN 0 ELSE CHOOSE m \in mids : \A x \in mids : x <= m

\* C1: whenever most_similar returns, the similarity of the returned record is
\* at least the similarity of every database record whose similarity to the
\* query is below 1.
C1_ClosestNonIdentical ==
    Returned =>
        \A i \in Records : Sim(i) < Scale => Sim(nb_best_mol) >= Sim(i)

\* C1 witness: a call returned from a database that holds an identical record
\* and a non-identical record scoring strictly less than the returned one.
C1_Witness ==
    /\ Returned
    /\ \E i \in Records : Sim(i) = Scale
    /\ \E j \in Records : 0 < Sim(j) /\ Sim(j) < Sim(nb_best_mol)

\* C2: whenever most_similar returns, the similarity s of the returned record
\* satisfies 0 < s < 1, wherever records of similarity 1 stand in the list.
C2_NeverIdentical ==
    Returned => 0 < Sim(nb_best_mol) /\ Sim(nb_best_mol) < Scale

\* C2 witness: a call returned a record that stands between two records of
\* similarity 1.
C2_Witness ==
    /\ Returned
    /\ \E i \in Records : i < nb_best_mol /\ Sim(i) = Scale
    /\ \E j \in Records : j > nb_best_mol /\ Sim(j) = Scale

\* C3 (as claimed): every run either completes or fails with a failure raised
\* by the external library; no failure originates in the notebook's own code.
C3_OnlyLibraryFailures == failure \in {"none", "ArgumentError"}

\* C4: once the parse cell has ended, no step changes the list 'molecules'
\* (length, order, name and smiles of every record) and none reads the file
\* again, whether most_similar returns or raises.
C4_MoleculesFrozen ==
    [][(pc \in {"input", "search", "scan", "report", "render", "done"})
          => (molecules' = molecules /\ reads' = reads /\ lines' = lines)]_vars

\* C4 witness: most_similar has scanned a list of at least two records and
\* kept one of them; the file was read once.
C4_Witness ==
    /\ pc = "scan"
    /\ Len(molecules) >= 2
    /\ Len(scanned) = Len(molecules)
    /\ best_mol # Unbound
    /\ reads = 1

\* The rows of a text: its lines, a newline ending a line (so a final newline
\* does not start another row).
Rows(text) ==
    LET pieces == Split(text, NL)
    IN IF pieces[Len(pieces)] = <<>> THEN Front(pieces) ELSE pieces

\* The data rows of a file: its rows after the header row.
DataRows(text) == IF Rows(text) = <<>> THEN <<>> ELSE Tail(Rows(text))

\* C5 (as claimed): after the load cell, 'lines' holds exactly the data rows of
\* the file in file order, no data row dropped.
C5_LinesAreDataRows == pc # "load" => lines = DataRows(file)

\* The stages of a run, in the order of the notebook's cells.
Stage(p) ==
    CASE p = "load" -> 1
      [] p \in {"parse", "parse_loop"} -> 2
      [] p = "input" -> 3
      [] p \in {"search", "scan"} -> 4
      [] p = "report" -> 5
      [] p = "render" -> 6
      [] p = "done" -> 7

\* What each stage leaves behind.
FileRead == reads = 1
ScanStarted == pc = "scan" \/ scanned # <<>> \/ sim_calls > 0
Reported == Len(printed) > 1
Rendered == images # <<>>

\* The stage never moves back and never skips a stage.
C6_StageStep == Stage(pc') \in {Stage(pc), Stage(pc) + 1}

\* The effects of the stages appear in the order of the stages.
C6_StageEffects ==
    /\ (molecules # <<>> \/ Stage(pc) >= 3) => FileRead
    /\ ScanStarted => Len(molecules) = Len(lines) /\ Stage(pc) >= 4
    /\ (Reported \/ Rendered \/ Stage(pc) >= 5) =>
          /\ nb_best_mol \in Records
          /\ Len(scanned) = Len(molecules)
    /\ Rendered => Reported
    /\ nb_best_mol # Unbound => Stage(pc) >= 5

\* C6: in every run the file is read, then parsed into records, then scanned,
\* then the best record is reported, then the images are rendered: the scan
\* never starts before every line is parsed, and report and render happen
\* only after the scan has returned a record.
C6_FixedOrder == []C6_StageEffects /\ [][C6_StageStep]_vars

\* C6 witness: a run that went through every stage, with at least two
\* records parsed and scanned, the best match printed and the images drawn.
C6_Witness ==
    /\ pc = "done"
    /\ Len(lines) >= 2
    /\ Reported /\ Rendered

\* C7: when every library call succeeds, most_similar returns a record if and
\* only if some database record has a similarity strictly between 0 and 1;
\* when none has, the call raises UnboundLocalError and returns no record.
C7_ReturnsIffMidExists ==
    (AllValid /\ (Returned \/ Raised)) =>
        LET midExists == \E i \in Records : 0 < Sim(i) /\ Sim(i) < Scale
        IN /\ Returned <=> midExists
           /\ ~midExists => /\ failure = "UnboundLocalError"
                            /\ nb_best_mol = Unbound

\* C7 witness: the call raised UnboundLocalError on a database of valid
\* records that holds a record of similarity 0 and a record of similarity 1.
C7_Witness ==
    /\ AllValid /\ Raised
    /\ failure = "UnboundLocalError"
    /\ \E i \in Records : Sim(i) = 0
    /\ \E j \in Records : Sim(j) = Scale

\* C8: the scan takes the records of 'molecules' in list order, each once,
\* with one similarity computed per record scored, and when no library call
\* fails it ends after exactly len(molecules) iterations.
C8_LinearScan ==
    /\ scanned = [k \in 1..Len(scanned) |-> k]
    /\ Len(scanned) <= Len(molecules)
    /\ sim_calls = IF failure = "ArgumentError" /\ pc = "scan"
                   THEN Len(scanned) - 1 ELSE Len(scanned)
    /\ (Returned \/ failure = "UnboundLocalError") =>
          /\ Len(scanned) = Len(molecules)
          /\ sim_calls = Len(molecules)

\* C8 witness: the call returned the first of at least three records: the
\* scan went on to the end after its best match.
C8_Witness ==
    /\ Returned
    /\ Len(molecules) >= 3
    /\ nb_best_mol = 1
    /\ scanned = <<1, 2, 3>>

\* C9: among the records that share the similarity of the returned record,
\* most_similar returns the first in list order.
C9_FirstOfTies ==
    Returned => \A i \in Records : Sim(i) = Sim(nb_best_mol) => nb_best_mol <= i

\* C9 witness: the call returned a record and a later record has the same
\* similarity.
C9_Witness ==
    /\ Returned
    /\ \E i \in Records : i > nb_best_mol /\ Sim(i) = Sim(nb_best_mol)

\* After each iteration of the scan: max_similarity is the greatest similarity
\* strictly between 0 and 1 among the records scored so far (0 if none), and
\* when it is positive best_mol is a scored record with that similarity.
C10_AfterIteration ==
    (pc = "scan" \/ Returned) =>
        /\ max_similarity = MaxMid(sim_calls)
        /\ 0 <= max_similarity /\ max_similarity < Scale
        /\ max_similarity > 0 =>
              /\ best_mol \in 1..sim_calls
              /\ Sim(best_mol) = max_similarity

\* C10: the loop invariant of most_similar holds after every iteration, and
\* max_similarity never decreases.
C10_LoopInvariant ==
    []C10_AfterIteration /\ [][max_similarity' >= max_similarity]_vars

\* C10 witness: in the middle of a scan the maximum has been raised twice and
\* a record is still to be scored.
C10_Witness ==
    /\ pc = "scan" /\ Running
    /\ sim_calls = 2
    /\ best_mol = 2
    /\ 0 < Sim(1) /\ Sim(1) < Sim(2)
    /\ HasNext(scan_i, molecules)

\* The records whose SMILES the library cannot parse.
BadRecords == { i \in Records : ~Valid(molecules[i].smiles) }

\* The first of them in list order.
FirstBad == CHOOSE i \in BadRecords : \A j \in BadRecords : i <= j

\* C11: when the SMILES of a database record does not parse, most_similar
\* stops at the first such record with the library's failure: the scan never
\* goes past that record, no record is returned (not even the best found so
\* far), and the records after it are not scored.
C11_AbortsAtBadRecord ==
    BadRecords # {} =>
        /\ ~Returned /\ nb_best_mol = Unbound
        /\ Len(scanned) <= FirstBad
        /\ sim_calls < FirstBad
        /\ failure # "UnboundLocalError"
        /\ Len(scanned) = FirstBad =>
              /\ pc = "scan"
              /\ failure = "ArgumentError"
              /\ scan_i = FirstBad
              /\ sim_calls = FirstBad - 1

\* C11 witness: the scan stopped at a bad record after it had kept an earlier
\* record as its best, with a record after the bad one left unscanned.
C11_Witness ==
    /\ pc = "scan" /\ failure = "ArgumentError"
    /\ best_mol # Unbound
    /\ max_similarity > 0
    /\ Len(scanned) < Len(molecules)
    /\ nb_best_mol = Unbound

\* The query does not parse: the call stops in its first statements, before
\* the loop, and no record is taken or scored.  The query parses: the scan
\* compares with the fingerprint of the query.
C12_QueryFirst ==
    /\ ~Valid(query_smiles) =>
          /\ pc # "scan" /\ ~Returned
          /\ scanned = <<>> /\ sim_calls = 0
          /\ ~Running => pc = "search" /\ failure = "ArgumentError"
    /\ (pc = "scan" \/ Returned) =>
          /\ Valid(query_smiles)
          /\ query_fp = QueryFp

\* The fingerprint of the query is assigned by the start of the call only,
\* and the scan changes neither it nor the query.
C12_FingerprintKept ==
    /\ query_fp' # query_fp => pc = "search"
    /\ pc = "scan" => query_fp' = query_fp /\ query_smiles' = query_smiles

\* C12: the query is converted to a fingerprint once, before the scan: with an
\* invalid query most_similar fails before any database record is examined,
\* and otherwise the same query fingerprint serves unchanged for every record.
C12_QueryConvertedOnce == []C12_QueryFirst /\ [][C12_FingerprintKept]_vars

\* C12 witness: the call failed on an invalid query with at least two records
\* in the database and none of them examined.
C12_Witness ==
    /\ pc = "search" /\ failure = "ArgumentError"
    /\ ~Valid(query_smiles)
    /\ Len(molecules) >= 2
    /\ scanned = <<>>

\* The positions of the tabs of a line.
Tabs(l) == { i \in 1..Len(l) : l[i] = TAB }

\* The position of the n-th tab of a line, or one past its end when the line
\* has fewer than n tabs; position 0 stands for the start of the line.
TabAt(l, n) ==
    IF n = 0 THEN 0
    ELSE IF Cardinality(Tabs(l)) < n THEN Len(l) + 1
    ELSE CHOOSE i \in Tabs(l) : Cardinality({ j \in Tabs(l) : j <= i }) = n

\* The n-th tab-separated field of a line: the text between tab n-1 and
\* tab n.
Field(l, n) == SubSeq(l, TabAt(l, n - 1) + 1, TabAt(l, n) - 1)

\* The lines with fewer than two tab-separated fields.
ShortLines == { i \in 1..Len(lines) : Tabs(lines[i]) = {} }

\* The parse cell has ended normally.
Parsed == Stage(pc) >= 3

\* C13: the parse step builds one record per line, in the order of the lines:
\* record i has the first tab-separated field of line i as its name and the
\* second as its smiles, whatever follows; once the step has ended there are
\* as many records as lines; and a line with fewer than two fields stops the
\* step at that line with IndexError, no record being added for it.
C13_OneRecordPerLine ==
    /\ Len(molecules) <= Len(lines)
    /\ \A i \in Records :
          /\ molecules[i].name = Field(lines[i], 1)
          /\ molecules[i].smiles = Field(lines[i], 2)
          /\ i \notin ShortLines
    /\ Parsed => Len(molecules) = Len(lines) /\ ShortLines = {}
    /\ (pc = "parse_loop" /\ ~Running) =>
          /\ failure = "IndexError"
          /\ parse_i \in ShortLines
          /\ \A j \in ShortLines : parse_i <= j
          /\ Len(molecules) = parse_i - 1
    /\ (pc = "parse_loop" /\ Running) => Len(molecules) = parse_i - 1

\* C13 witness: the parse step stopped at a line without a tab after it had
\* built records, one of them from a line with a third field.
C13_Witness ==
    /\ pc = "parse_loop" /\ failure = "IndexError"
    /\ Len(molecules) >= 2
    /\ \E i \in Records : Cardinality(Tabs(lines[i])) >= 2
=============================================================================
